---- MODULE Spec2Model ----
(***************************************************************************)
(* Model of stock_predictor.ipynb: the data loader/windower load_data      *)
(* (with shuffle_in_unison) and the model builder create_model.            *)
(*                                                                         *)
(* A DataFrame is a record [index, cols]: index is the sequence of row     *)
(* labels (dates, as day numbers) and cols maps a column name to the       *)
(* sequence of its values.  Numbers are binary floating-point values held  *)
(* as integers in units of 2^-FracBits; float64 arithmetic rounds to       *)
(* MantissaBits64 significant bits and astype(np.float32) rounds to        *)
(* MantissaBits32 significant bits (round to nearest, ties to even).       *)
(***************************************************************************)
EXTENDS Integers, Sequences, FiniteSets, TLC

VARIABLES df, args, rng, result, model

vars == <<df, args, rng, result, model>>

----------------------------------------------------------------------------
(* Bounds of the model *)

MaxRows == 5
MaxSteps == 2
MaxLookup == 2
MaxLayers == 4
RngMod == 7
FracBits == 10
MantissaBits64 == 5
MantissaBits32 == 3

(* np.random.seed(314) *)
Seed == 314

----------------------------------------------------------------------------
(* Floating point *)

One == 2 ^ FracBits

NaN == 0 - 1

RECURSIVE Msb(_)
Msb(x) == IF x < 2 THEN 0 ELSE 1 + Msb(x \div 2)

(* The representable value nearest to the rational num/den (num >= 0,      *)
(* den > 0, in units of 2^-FracBits), with p significant bits.             *)
Round(num, den, p) ==
    LET f    == num \div den
        sh   == IF f < 2 ^ p THEN 0 ELSE Msb(f) - (p - 1)
        step == 2 ^ sh
        q    == num \div (den * step)
        rem2 == 2 * (num - q * den * step)
        up   == rem2 > den * step \/ (rem2 = den * step /\ q % 2 = 1)
    IN  (IF up THEN q + 1 ELSE q) * step

FlMul(a, b) == Round(a * b, One, MantissaBits64)

FlDiv(a, b) == Round(a * One, b, MantissaBits64)

FlSub(a, b) == Round(a - b, 1, MantissaBits64)

astype_float32(v) == Round(v, 1, MantissaBits32)

----------------------------------------------------------------------------
(* Sequence helpers *)

Range(s) == {s[i] : i \in DOMAIN s}

SeqMin(s) == CHOOSE v \in Range(s) : \A w \in Range(s) : v <= w

SeqMax(s) == CHOOSE v \in Range(s) : \A w \in Range(s) : v >= w

NumRows(t) == Len(t.index)

HasColumn(t, c) == c \in DOMAIN t.cols

SetColumn(t, c, vals) ==
    [t EXCEPT !.cols = [k \in (DOMAIN t.cols) \cup {c} |->
                            IF k = c THEN vals ELSE t.cols[k]]]

(* df[feature_columns (+ ["date"])].values[i]: one row, columns in order *)
Entry(t, columns, i) == [f \in 1..Len(columns) |-> t.cols[columns[f]][i]]

(* The rows of t at positions idxs, in that order *)
TakeRows(t, idxs) ==
    [index |-> [k \in 1..Len(idxs) |-> t.index[idxs[k]]],
     cols  |-> [c \in DOMAIN t.cols |->
                   [k \in 1..Len(idxs) |-> t.cols[c][idxs[k]]]]]

----------------------------------------------------------------------------
(* np.random: the global generator, a small congruential generator here *)

random_interval(max, state) ==
    [val |-> state % (max + 1), state |-> (5 * state + 3) % RngMod]

(* np.random.shuffle(x): for i in reversed(range(1, n)): j = interval(i);  *)
(* swap x[i], x[j]  (positions are 0-based in the code, 1-based here)      *)
RECURSIVE ShuffleFrom(_, _, _)
ShuffleFrom(x, i, state) ==
    IF i < 1 THEN [x |-> x, state |-> state]
    ELSE LET d == random_interval(i, state)
             j == d.val
         IN  ShuffleFrom([x EXCEPT ![i + 1] = x[j + 1], ![j + 1] = x[i + 1]],
                         i - 1, d.state)

Shuffle(x, state) == ShuffleFrom(x, Len(x) - 1, state)

(* shuffle_in_unison without np.random.set_state(state) before the second shuffle *)
shuffle_without_restore(a, b, rngstate) ==
    LET sa == Shuffle(a, rngstate)
        sb == Shuffle(b, sa.state)
    IN  [a |-> sa.x, b |-> sb.x, state |-> sb.state]

shuffle_in_unison(a, b, rngstate) ==
    LET state == rngstate                 \* np.random.get_state()
        sa    == Shuffle(a, rngstate)     \* np.random.shuffle(a)
        sb    == Shuffle(b, state)        \* set_state(state); shuffle(b)
    IN  [a |-> sa.x, b |-> sb.x, state |-> sb.state]

----------------------------------------------------------------------------
(* sklearn.preprocessing.MinMaxScaler, feature_range (0, 1) *)

MinMaxFit(col) ==
    LET data_min   == SeqMin(col)
        data_max   == SeqMax(col)
        data_range == FlSub(data_max, data_min)
        scale_     == FlDiv(One, IF data_range = 0 THEN One ELSE data_range)
    IN  [data_min |-> data_min, data_max |-> data_max, scale_ |-> scale_,
         \* min_ = 0 - data_min * scale_, held by its magnitude
         neg_min_ |-> FlMul(data_min, scale_)]

(* X * scale_, the offset min_ forgotten *)
MinMaxTransformNoOffset(sc, col) ==
    [i \in 1..Len(col) |-> FlMul(col[i], sc.scale_)]

(* X * scale_ + min_ *)
MinMaxTransform(sc, col) ==
    [i \in 1..Len(col) |-> FlSub(FlMul(col[i], sc.scale_), sc.neg_min_)]

RECURSIVE ScaleColumns(_, _, _, _)
ScaleColumns(t, feature_columns, i, column_scaler) ==
    IF i > Len(feature_columns)
    THEN [df |-> t, column_scaler |-> column_scaler]
    ELSE LET column == feature_columns[i]
             scaler == MinMaxFit(t.cols[column])
         IN  ScaleColumns(
                 SetColumn(t, column, MinMaxTransform(scaler, t.cols[column])),
                 feature_columns, i + 1,
                 [k \in (DOMAIN column_scaler) \cup {column} |->
                     IF k = column THEN scaler ELSE column_scaler[k]])

----------------------------------------------------------------------------
(* Steps of load_data *)

AddDate(t) ==
    IF HasColumn(t, "date") THEN t ELSE SetColumn(t, "date", t.index)

(* df['adjclose'].shift(lookup_step): the past value instead of the future one *)
ShiftBack(col, lookup_step) ==
    [i \in 1..Len(col) |->
        IF i - lookup_step >= 1 THEN col[i - lookup_step] ELSE NaN]

(* df['adjclose'].shift(-lookup_step) *)
Shift(col, lookup_step) ==
    [i \in 1..Len(col) |->
        IF i + lookup_step <= Len(col) THEN col[i + lookup_step] ELSE NaN]

(* df[feature_columns].tail(lookup_step + 1) *)
DfTailOneMore(t, feature_columns, lookup_step) ==
    LET R     == NumRows(t)
        first == IF lookup_step + 1 >= R THEN 1 ELSE R - lookup_step
    IN  [k \in 1..(R - first + 1) |-> Entry(t, feature_columns, first + k - 1)]

(* np.array(df[feature_columns].tail(lookup_step)) *)
DfTail(t, feature_columns, lookup_step) ==
    LET R     == NumRows(t)
        first == IF lookup_step >= R THEN 1 ELSE R - lookup_step + 1
    IN  [k \in 1..(R - first + 1) |-> Entry(t, feature_columns, first + k - 1)]

(* df.dropna(inplace=True) *)
DropNa(t) ==
    LET keep == SelectSeq([i \in 1..NumRows(t) |-> i],
                          LAMBDA i : \A c \in DOMAIN t.cols : t.cols[c][i] # NaN)
    IN  TakeRows(t, keep)

(* a plain list in place of the deque: nothing is dropped at maxlen *)
ListAppend(sequences, entry, maxlen) == Append(sequences, entry)

(* deque(maxlen=n_steps).append(entry) *)
DequeAppend(sequences, entry, maxlen) ==
    IF Len(sequences) = maxlen
    THEN Append(Tail(sequences), entry)
    ELSE Append(sequences, entry)

(* for entry, target in zip(df[feature_columns + ["date"]].values,         *)
(*                          df['future'].values): ...                      *)
RECURSIVE SequenceLoop(_, _, _, _, _, _)
SequenceLoop(t, columns, n_steps, i, sequences, sequence_data) ==
    IF i > NumRows(t)
    THEN [sequences |-> sequences, sequence_data |-> sequence_data]
    ELSE LET entry  == Entry(t, columns, i)
             target == t.cols["future"][i]
             seqs   == DequeAppend(sequences, entry, n_steps)
         IN  SequenceLoop(t, columns, n_steps, i + 1, seqs,
                 IF Len(seqs) = n_steps
                 THEN Append(sequence_data, [seq |-> seqs, target |-> target])
                 ELSE sequence_data)

(* list([s[:len(feature_columns)] for s in sequences]) + list(last_sequence), *)
(* then .astype(np.float32)                                                   *)
LastSequence(sequences, tail_rows, nfeat) ==
    LET rows == [k \in 1..Len(sequences) |-> SubSeq(sequences[k], 1, nfeat)]
                \o tail_rows
    IN  [k \in 1..Len(rows) |->
            [f \in 1..Len(rows[k]) |-> astype_float32(rows[k][f])]]

(* int(test_size * len(X)) *)
TrainSamplesOfTestSize(test_size, n) == (test_size * n) \div 100

(* int((1 - test_size) * len(X)); test_size is held in percent *)
TrainSamples(test_size, n) == ((100 - test_size) * n) \div 100

SplitByDate(X, y, test_size, shuffle, rngstate) ==
    LET train_samples == TrainSamples(test_size, Len(X))
        X_train == SubSeq(X, 1, train_samples)
        y_train == SubSeq(y, 1, train_samples)
        X_test  == SubSeq(X, train_samples + 1, Len(X))
        y_test  == SubSeq(y, train_samples + 1, Len(y))
        s1 == shuffle_in_unison(X_train, y_train, rngstate)
        s2 == shuffle_in_unison(X_test, y_test, s1.state)
    IN  IF shuffle
        THEN [X_train |-> s1.a, y_train |-> s1.b,
              X_test |-> s2.a, y_test |-> s2.b, state |-> s2.state]
        ELSE [X_train |-> X_train, y_train |-> y_train,
              X_test |-> X_test, y_test |-> y_test, state |-> rngstate]

(* sklearn.model_selection.train_test_split(X, y, test_size, shuffle):     *)
(* n_test = ceil(test_size * n), n_train = n - n_test, an empty training   *)
(* set is a ValueError; the test indices are the head of a permutation     *)
(* drawn from the global generator when shuffle, the tail of the data      *)
(* otherwise                                                               *)
TestCount(test_size, n) == (test_size * n + 99) \div 100

TrainTestSplit(X, y, test_size, shuffle, rngstate) ==
    LET n       == Len(X)
        n_test  == TestCount(test_size, n)
        n_train == n - n_test
        p       == Shuffle([i \in 1..n |-> i], rngstate)
        perm    == IF shuffle THEN p.x ELSE [i \in 1..n |-> i]
        train   == IF shuffle THEN SubSeq(perm, n_test + 1, n)
                              ELSE SubSeq(perm, 1, n_train)
        test    == IF shuffle THEN SubSeq(perm, 1, n_test)
                              ELSE SubSeq(perm, n_train + 1, n)
    IN  IF n_train = 0
        THEN [error |-> TRUE]
        ELSE [error |-> FALSE,
              X_train |-> [k \in 1..n_train |-> X[train[k]]],
              y_train |-> [k \in 1..n_train |-> y[train[k]]],
              X_test  |-> [k \in 1..n_test |-> X[test[k]]],
              y_test  |-> [k \in 1..n_test |-> y[test[k]]],
              state   |-> IF shuffle THEN p.state ELSE rngstate]

(* result["df"].loc[dates], duplicated index labels dropped (keep first) *)
TestDf(copy, dates) ==
    LET first == SelectSeq([j \in 1..Len(dates) |-> j],
                           LAMBDA j : \A k \in 1..(j - 1) : dates[k] # dates[j])
        pos   == [k \in 1..Len(first) |->
                     CHOOSE i \in 1..NumRows(copy) :
                         copy.index[i] = dates[first[k]]]
    IN  TakeRows(copy, pos)

(* X[:, :, :len(feature_columns)].astype(np.float32) *)
StripDates(X, nfeat) ==
    [w \in 1..Len(X) |->
        [r \in 1..Len(X[w]) |->
            [f \in 1..nfeat |-> astype_float32(X[w][r][f])]]]

Failure(status) == [status |-> status]

(* load_data after the ticker type check, in the order of the code.  `df_` *)
(* is the DataFrame the function works on (the caller's own object when a  *)
(* DataFrame was passed) and `copy` is result['df'].  Each step gives the  *)
(* frame as the call leaves it, the generator state, and the dictionary    *)
(* returned (or the exception raised).                                     *)

(* the test dates, the date column removed, the dictionary returned *)
ReturnResult(df_, copy, column_scaler, last_sequence, split, a) ==
    LET nfeat == Len(a.feature_columns)
        \* result["X_test"][:, -1, -1]
        dates == [j \in 1..Len(split.X_test) |->
                     split.X_test[j][a.n_steps][nfeat + 1]]
        base  == [status |-> "ok", df |-> copy, last_sequence |-> last_sequence,
                  X_train |-> StripDates(split.X_train, nfeat),
                  y_train |-> split.y_train,
                  X_test  |-> StripDates(split.X_test, nfeat),
                  y_test  |-> split.y_test,
                  test_df |-> TestDf(copy, dates)]
    IN  [df |-> df_, rng |-> split.state,
         result |-> IF a.scale
                    THEN [c \in (DOMAIN base) \cup {"column_scaler"} |->
                             IF c = "column_scaler" THEN column_scaler
                             ELSE base[c]]
                    ELSE base]

SplitData(df_, copy, column_scaler, last_sequence, X, y, a, rngstate) ==
    IF a.split_by_date
    THEN IF Len(X) = 0
         \* X is an empty 1-D array: X_test[:, -1, -1] has too many indices
         THEN [df |-> df_, rng |-> rngstate, result |-> Failure("IndexError")]
         ELSE ReturnResult(df_, copy, column_scaler, last_sequence,
                  SplitByDate(X, y, a.test_size, a.shuffle, rngstate), a)
    ELSE LET split == TrainTestSplit(X, y, a.test_size, a.shuffle, rngstate)
         IN  IF split.error
             THEN [df |-> df_, rng |-> rngstate, result |-> Failure("ValueError")]
             ELSE ReturnResult(df_, copy, column_scaler, last_sequence, split, a)

BuildSequences(df_, copy, column_scaler, tail_rows, a, rngstate) ==
    LET loop == SequenceLoop(df_, a.feature_columns \o <<"date">>,
                             a.n_steps, 1, <<>>, <<>>)
        n    == Len(loop.sequence_data)
    IN  SplitData(df_, copy, column_scaler,
                  LastSequence(loop.sequences, tail_rows, Len(a.feature_columns)),
                  [k \in 1..n |-> loop.sequence_data[k].seq],
                  [k \in 1..n |-> loop.sequence_data[k].target],
                  a, rngstate)

AddFuture(df_, copy, column_scaler, a, rngstate) ==
    IF ~HasColumn(df_, "adjclose")
    THEN [df |-> df_, rng |-> rngstate, result |-> Failure("KeyError")]
    ELSE LET future == SetColumn(df_, "future",
                                 Shift(df_.cols["adjclose"], a.lookup_step))
         IN  BuildSequences(DropNa(future), copy, column_scaler,
                            DfTail(future, a.feature_columns, a.lookup_step),
                            a, rngstate)

ScaleData(df_, copy, a, rngstate) ==
    IF ~a.scale
    THEN AddFuture(df_, copy, <<>>, a, rngstate)
    ELSE IF NumRows(df_) = 0
    \* MinMaxScaler.fit_transform refuses an array of 0 samples
    THEN [df |-> df_, rng |-> rngstate, result |-> Failure("ValueError")]
    ELSE LET sc == ScaleColumns(df_, a.feature_columns, 1, <<>>)
         IN  AddFuture(sc.df, copy, sc.column_scaler, a, rngstate)

(* load_data with the date column added before the columns are asserted *)
load_frame_date_first(df_, a, rngstate) ==
    IF \E i \in 1..Len(a.feature_columns) : ~HasColumn(df_, a.feature_columns[i])
    THEN [df |-> AddDate(df_), rng |-> rngstate, result |-> Failure("AssertionError")]
    ELSE ScaleData(AddDate(df_), df_, a, rngstate)

load_frame(df_, a, rngstate) ==
    IF \E i \in 1..Len(a.feature_columns) : ~HasColumn(df_, a.feature_columns[i])
    THEN [df |-> df_, rng |-> rngstate, result |-> Failure("AssertionError")]
    ELSE ScaleData(AddDate(df_), df_, a, rngstate)

----------------------------------------------------------------------------
(* create_model: the layers added to the Sequential model, in order *)

Recurrent(cell, units, return_sequences, bidirectional, input_shape) ==
    [kind |-> "recurrent", cell |-> cell, units |-> units,
     return_sequences |-> return_sequences, bidirectional |-> bidirectional,
     batch_input_shape |-> input_shape]

RECURSIVE AddLayers(_, _, _, _, _, _, _, _)
AddLayers(layers, i, n_layers, cell, units, dropout, bidirectional, shape) ==
    IF i >= n_layers THEN layers
    ELSE LET layer ==
                 IF i = 0
                 THEN Recurrent(cell, units, TRUE, bidirectional, shape)
                 ELSE IF i = n_layers - 1
                 THEN Recurrent(cell, units, FALSE, bidirectional, <<>>)
                 ELSE Recurrent(cell, units, TRUE, bidirectional, <<>>)
         IN  AddLayers(layers \o <<layer, [kind |-> "dropout", rate |-> dropout]>>,
                       i + 1, n_layers, cell, units, dropout, bidirectional, shape)

create_model(sequence_length, n_features, units, cell, n_layers, dropout, loss, optimizer, bidirectional) ==
    [layers |-> AddLayers(<<>>, 0, n_layers, cell, units, dropout, bidirectional,
                          <<sequence_length, n_features>>)
                \o <<[kind |-> "dense", units |-> 1, activation |-> "linear"]>>,
     loss |-> loss, metrics |-> <<"mean_absolute_error">>,
     optimizer |-> optimizer]

----------------------------------------------------------------------------
(* Inputs *)

(* The two prices a table cell of 'adjclose' takes: 1.0625 and 3.0 *)
Prices == {One + One \div 16, 3 * One}

(* 'volume' of the row dated d: 1.5, 2.0, 2.5, ... *)
VolumeOn(d) == One + (d * One) \div 2

MakeTable(adj) ==
    [index |-> [i \in 1..Len(adj) |-> i],
     cols  |-> [c \in {"adjclose", "volume"} |->
                   IF c = "adjclose" THEN adj
                   ELSE [i \in 1..Len(adj) |-> VolumeOn(i)]]]

Tables == UNION {{MakeTable(adj) : adj \in [1..R -> Prices]} : R \in 1..MaxRows}

(* What si.get_data may deliver for a ticker symbol *)
Quotes ==
    {MakeTable([i \in 1..MaxRows |-> IF i % 2 = b THEN One + One \div 16
                                                  ELSE 3 * One]) : b \in 0..1}

FeatureChoices ==
    {<<"adjclose", "volume">>, <<"adjclose">>, <<"volume">>, <<"volume", "open">>}

(* test_size in percent: 0.2 (the default) and 0.5 *)
TestSizes == {20, 50}

TableArgs ==
    [ticker : {"DataFrame"}, n_steps : 1..MaxSteps, scale : BOOLEAN,
     shuffle : BOOLEAN, lookup_step : 1..MaxLookup, split_by_date : BOOLEAN,
     test_size : TestSizes, feature_columns : FeatureChoices]

(* Calls with a ticker symbol, and with a ticker of another type *)
OtherArgs ==
    [ticker : {"str", "int"}, n_steps : {MaxSteps}, scale : BOOLEAN,
     shuffle : BOOLEAN, lookup_step : {1}, split_by_date : BOOLEAN,
     test_size : {20}, feature_columns : {<<"adjclose", "volume">>}]

NoResult == [status |-> "none"]

NoModel == [layers |-> <<>>]

----------------------------------------------------------------------------
(* The data pipeline: one table, one set of arguments, repeated calls *)

Init ==
    /\ df \in Tables
    /\ args \in TableArgs \cup OtherArgs
    /\ rng = Seed % RngMod
    /\ result = NoResult
    /\ model = NoModel

Returns(r, table) ==
    /\ df' = table
    /\ rng' = r.rng
    /\ result' = r.result

load_data ==
    /\ \/ /\ args.ticker = "str"
          /\ \E fetched \in Quotes : Returns(load_frame(fetched, args, rng), df)
       \/ /\ args.ticker = "DataFrame"
          /\ LET r == load_frame(df, args, rng) IN Returns(r, r.df)
       \/ /\ args.ticker \notin {"str", "DataFrame"}
          /\ result' = Failure("TypeError")
          /\ UNCHANGED <<df, rng>>
    /\ UNCHANGED <<args, model>>

Next == load_data

Spec == Init /\ [][Next]_vars

----------------------------------------------------------------------------
(* The model builder *)

Cells == {"LSTM", "GRU"}

UnitChoices == {128, 256}

(* dropout in percent: 0.3 (the default) and 0.4 *)
DropoutChoices == {30, 40}

ModelArgs ==
    [sequence_length : 1..MaxSteps, n_features : 1..2, units : UnitChoices,
     cell : Cells, n_layers : 0..MaxLayers, dropout : DropoutChoices,
     loss : {"mean_absolute_error"}, optimizer : {"rmsprop"},
     bidirectional : BOOLEAN]

InitModel ==
    /\ df = MakeTable([i \in 1..MaxRows |-> 3 * One])
    /\ args \in ModelArgs
    /\ rng = Seed % RngMod
    /\ result = NoResult
    /\ model = NoModel

CreateModel ==
    /\ model' = create_model(args.sequence_length, args.n_features, args.units,
                             args.cell, args.n_layers, args.dropout, args.loss,
                             args.optimizer, args.bidirectional)
    /\ UNCHANGED <<df, args, rng, result>>

NextModel == CreateModel

SpecModel == InitModel /\ [][NextModel]_vars

----------------------------------------------------------------------------
(* What the claims speak of.  r is the dictionary a call returned and a    *)
(* the arguments of the call; r.df is the table as it was passed.  Rows    *)
(* and windows are numbered from 1: window k covers rows k .. k+n_steps-1. *)

Features(a) == Range(a.feature_columns)

(* A table of the claims: the named features exist, nothing is missing *)
Loadable(t, a) ==
    /\ a.ticker = "DataFrame"
    /\ \A c \in Features(a) : HasColumn(t, c)
    /\ \A c \in DOMAIN t.cols : \A i \in 1..NumRows(t) : t.cols[c][i] # NaN
    /\ NumRows(t) >= a.n_steps + a.lookup_step

WindowCount(t, a) == NumRows(t) - a.lookup_step - a.n_steps + 1

(* The value of column c in row i of the table the windows are built from: *)
(* the passed value, through the returned scaler when the column is scaled *)
TableValue(r, a, c, i) ==
    IF a.scale /\ c \in Features(a)
    THEN MinMaxTransform(r.column_scaler[c], <<r.df.cols[c][i]>>)[1]
    ELSE r.df.cols[c][i]

(* Rows first .. first+len-1 of the feature columns, as float32 *)
FeatureRows(r, a, first, len) ==
    [j \in 1..len |->
        [f \in 1..Len(a.feature_columns) |->
            astype_float32(TableValue(r, a, a.feature_columns[f], first + j - 1))]]

WindowAt(r, a, k) == FeatureRows(r, a, k, a.n_steps)

TargetAt(r, a, k) ==
    TableValue(r, a, "adjclose", k + a.n_steps - 1 + a.lookup_step)

SameBag(s, t) ==
    /\ Len(s) = Len(t)
    /\ \A v \in Range(s) \cup Range(t) :
          Cardinality({i \in DOMAIN s : s[i] = v})
              = Cardinality({i \in DOMAIN t : t[i] = v})

Pairs(X, y) == [i \in 1..Len(X) |-> <<X[i], y[i]>>]

PairsBuilt(r, a, from, to) ==
    [k \in 1..(to - from + 1) |->
        <<WindowAt(r, a, from + k - 1), TargetAt(r, a, from + k - 1)>>]

Returned(r) == r.status = "ok"

(* C1's samples: W in total, each the feature rows of one window built *)
WindowsReturned(r, a) ==
    LET W == WindowCount(r.df, a)
    IN  /\ Len(r.X_train) + Len(r.X_test) = W
        /\ SameBag(r.X_train \o r.X_test, [k \in 1..W |-> WindowAt(r, a, k)])
        /\ \A w \in Range(r.X_train) \cup Range(r.X_test) :
              /\ Len(w) = a.n_steps
              /\ \A j \in 1..Len(w) : Len(w[j]) = Len(a.feature_columns)

(* The random split leaves a training sample *)
SplitAccepts(t, a) ==
    a.split_by_date
        \/ WindowCount(t, a) - TestCount(a.test_size, WindowCount(t, a)) >= 1

(* C1 as stated: every call on a table of R >= n_steps + lookup_step rows  *)
(* produces W = R - lookup_step - n_steps + 1 samples in total, the k-th   *)
(* window built covering rows k .. k+n_steps-1, each row holding the       *)
(* len(feature_columns) feature values.                                    *)
C1_AsStated ==
    [][Loadable(df, args) => Returned(result') /\ WindowsReturned(result', args)]_vars

(* C1, amended: such a call returns exactly when split_by_date is true or  *)
(* the random split leaves at least one training sample (otherwise         *)
(* train_test_split raises ValueError), and when it returns the samples    *)
(* are the W windows built, window k covering rows k .. k+n_steps-1 with   *)
(* len(feature_columns) values per row.                                    *)
C1_WindowsWhenSplitAccepts ==
    [][Loadable(df, args) =>
          /\ Returned(result') <=> SplitAccepts(df, args)
          /\ ~Returned(result') => result'.status = "ValueError"
          /\ Returned(result') => WindowsReturned(result', args)]_vars

C1_Witness ==
    /\ Returned(result)
    /\ args.n_steps >= 2
    /\ Len(result.X_train) >= 2
    /\ Len(result.X_train) + Len(result.X_test) = WindowCount(result.df, args)
    /\ result.X_train[1] # result.X_train[2]

(* C2: the target paired with each returned window is the adjclose value   *)
(* of the row lookup_step rows after the window's last row, in the table   *)
(* the windows are built from; the pairs returned are exactly the pairs of *)
(* windows 1..W, so no window ends in the last lookup_step rows.           *)
C2_TargetIsFutureAdjclose ==
    Returned(result) =>
        /\ Len(result.y_train) = Len(result.X_train)
        /\ Len(result.y_test) = Len(result.X_test)
        /\ SameBag(Pairs(result.X_train, result.y_train)
                       \o Pairs(result.X_test, result.y_test),
                   PairsBuilt(result, args, 1, WindowCount(result.df, args)))

C2_Witness ==
    /\ Returned(result)
    /\ args.lookup_step >= 2
    /\ Len(result.y_train) >= 1
    /\ result.y_train[1] # result.y_test[1]
    /\ result.y_train[1] = TargetAt(result, args, 1)

C4_LastSequenceIsTableTail ==
    Returned(result) =>
        LET len == args.n_steps + args.lookup_step
        IN  /\ NumRows(result.df) >= len
            /\ Len(result.last_sequence) = len
            /\ result.last_sequence
                   = FeatureRows(result, args, NumRows(result.df) - len + 1, len)

C4_Witness ==
    /\ Returned(result)
    /\ args.n_steps >= 2 /\ args.lookup_step >= 2
    /\ NumRows(result.df) > args.n_steps + args.lookup_step
    /\ result.last_sequence[1] # result.last_sequence[Len(result.last_sequence)]

(* Every feature row returned: the rows of the windows and of last_sequence *)
RowsReturned(r) ==
    UNION {Range(w) : w \in Range(r.X_train) \cup Range(r.X_test)}
        \cup Range(r.last_sequence)

TargetsReturned(r) == Range(r.y_train) \cup Range(r.y_test)

(* The image of the column maximum under the returned scaler *)
Top(sc) == MinMaxTransform(sc, <<sc.data_max>>)[1]

Abs(x) == IF x < 0 THEN 0 - x ELSE x

(* The scaler was fitted on column c of the passed table; the minimum maps *)
(* to 0; the maximum maps to 0 for a constant column and otherwise to 1    *)
(* within 3 + (max + min) / (max - min) units of float64 roundoff          *)
ScalerFits(r, c) ==
    LET sc == r.column_scaler[c]
        m  == sc.data_min
        M  == sc.data_max
    IN  /\ m = SeqMin(r.df.cols[c]) /\ M = SeqMax(r.df.cols[c])
        /\ MinMaxTransform(sc, <<m>>)[1] = 0
        /\ IF M = m THEN Top(sc) = 0
           ELSE Abs(Top(sc) - One) * 2 ^ MantissaBits64
                    <= (One * (4 * M - 2 * m)) \div (M - m)

C6_LayerStack ==
    (model # NoModel /\ args.n_layers >= 1) =>
        LET n == args.n_layers
            L == model.layers
        IN  /\ Len(L) = 2 * n + 1
            /\ \A i \in 1..n :
                  /\ L[2 * i - 1].kind = "recurrent"
                  /\ L[2 * i - 1].bidirectional = args.bidirectional
                  /\ L[2 * i].kind = "dropout"
                  /\ L[2 * i - 1].return_sequences = (i < n)
            /\ L[2 * n + 1] = [kind |-> "dense", units |-> 1, activation |-> "linear"]

(* C7: a ticker that is neither a string nor a table raises TypeError, a   *)
(* feature column missing from the table raises AssertionError; either way *)
(* nothing is returned and the table passed is left as it was.             *)
C7_ValidationLeavesTableUnchanged ==
    [][/\ args.ticker \notin {"str", "DataFrame"} =>
              result' = Failure("TypeError") /\ df' = df
       /\ (args.ticker = "DataFrame"
              /\ \E c \in Features(args) : ~HasColumn(df, c)) =>
              result' = Failure("AssertionError") /\ df' = df]_vars

C7_Witness ==
    /\ result = Failure("AssertionError")
    /\ args.ticker = "DataFrame" /\ args.scale
    /\ HasColumn(df, args.feature_columns[1])
    /\ df \in Tables

(* C8: with split_by_date and shuffle, each set is reordered by one        *)
(* permutation applied to windows and targets alike: y_train[i] stays the  *)
(* target of X_train[i], y_test[i] of X_test[i], each set keeps its        *)
(* samples and none moves between the sets.                                *)
C8_ShuffleKeepsPairs ==
    (Returned(result) /\ args.split_by_date /\ args.shuffle) =>
        LET W == WindowCount(result.df, args)
            T == ((100 - args.test_size) * W) \div 100
        IN  /\ Len(result.y_train) = Len(result.X_train)
            /\ Len(result.y_test) = Len(result.X_test)
            /\ SameBag(Pairs(result.X_train, result.y_train),
                       PairsBuilt(result, args, 1, T))
            /\ SameBag(Pairs(result.X_test, result.y_test),
                       PairsBuilt(result, args, T + 1, W))

(* a training set of distinct samples that the shuffle did reorder *)
C8_Witness ==
    /\ Returned(result) /\ args.split_by_date /\ args.shuffle
    /\ Len(result.X_train) >= 2
    /\ result.y_train[1] # result.y_train[2]
    /\ result.X_train[1] # WindowAt(result, args, 1)

(* C9: a successful call leaves the table passed unchanged, so a repeated  *)
(* call with the same arguments and shuffle false returns the same         *)
(* windows, targets and last_sequence.                                     *)
C9_TableUnchanged ==
    [][(args.ticker = "DataFrame" /\ Returned(result')) =>
          /\ df' = df
          /\ (Returned(result) /\ ~args.shuffle) =>
                /\ result'.X_train = result.X_train
                /\ result'.X_test = result.X_test
                /\ result'.y_train = result.y_train
                /\ result'.y_test = result.y_test
                /\ result'.last_sequence = result.last_sequence]_vars

====
